---- MODULE Spec2Model ----
(***************************************************************************)
(* Model of api/clean-note.js: a webhook handler that authenticates a      *)
(* Shopify order notification, gates it on topic and order age, extracts a *)
(* delivery date from the note in the payload, and rewrites the order's    *)
(* tags and note in the store.                                             *)
(*                                                                         *)
(* Text is a sequence of characters.  A character is a one-character       *)
(* string, except that the words of the label are single characters        *)
(* "delivery" and "date": the patterns match them case-insensitively (the  *)
(* i flag) and never look inside them.  Any other string is an ordinary    *)
(* character of prose.                                                     *)
(***************************************************************************)
EXTENDS Integers, Sequences, FiniteSets, TLC

\* ---------------------------------------------------------------- bounds

\* The length of the window, which the deployment sets through the
\* environment (CLEAN_WINDOW_SECONDS, 30 when unset): a short window keeps the
\* clock small.
CLEAN_WINDOW_SECONDS == 1

\* ------------------------------------------------------------ characters

SP == " "
TAB == "\t"
NL == "\n"
WS == {SP, TAB, NL}
Blanks == {SP, TAB}
Digits == {"0", "1", "2", "3", "4", "5", "6", "7", "8", "9"}
Seps == {"/", "-"}

IsWS(s, i) == i >= 1 /\ i <= Len(s) /\ s[i] \in WS
IsDigit(s, i) == i >= 1 /\ i <= Len(s) /\ s[i] \in Digits
At(s, i, c) == i >= 1 /\ i <= Len(s) /\ s[i] = c

DigitVal(c) ==
  CASE c = "0" -> 0 [] c = "1" -> 1 [] c = "2" -> 2 [] c = "3" -> 3
    [] c = "4" -> 4 [] c = "5" -> 5 [] c = "6" -> 6 [] c = "7" -> 7
    [] c = "8" -> 8 [] c = "9" -> 9

\* Number(yy) for a string of digits.
RECURSIVE Number(_)
Number(ds) ==
  IF ds = << >> THEN 0
  ELSE 10 * Number(SubSeq(ds, 1, Len(ds) - 1)) + DigitVal(ds[Len(ds)])

\* The first index >= i that holds no whitespace: where a greedy \s* stops.
RECURSIVE SkipWS(_, _)
SkipWS(s, i) == IF IsWS(s, i) THEN SkipWS(s, i + 1) ELSE i

\* The length of the run of digits that starts at i.
RECURSIVE DigitRun(_, _)
DigitRun(s, i) == IF IsDigit(s, i) THEN 1 + DigitRun(s, i + 1) ELSE 0

\* String.prototype.trim.
RECURSIVE TrimLeft(_)
TrimLeft(s) == IF s # << >> /\ s[1] \in WS THEN TrimLeft(Tail(s)) ELSE s
RECURSIVE TrimRight(_)
TrimRight(s) ==
  IF s # << >> /\ s[Len(s)] \in WS
  THEN TrimRight(SubSeq(s, 1, Len(s) - 1)) ELSE s
Trim(s) == TrimRight(TrimLeft(s))

\* String(n).padStart(2, "0")
to2(n) == IF Len(n) = 0 THEN <<"0", "0">>
          ELSE IF Len(n) = 1 THEN <<"0">> \o n ELSE n

formatDateDMY(y, m, d) == to2(d) \o <<"-">> \o to2(m) \o <<"-">> \o y
formatDateYMD(y, m, d) == y \o <<"-">> \o to2(m) \o <<"-">> \o to2(d)
formatTagByPreference(pref, y, m, d) ==
  IF pref = "YMD" THEN formatDateYMD(y, m, d) ELSE formatDateDMY(y, m, d)

\* ------------------------------------------------- the directive patterns

\* The shape of the date in the two patterns of each function: pattern 1 is
\* \d{1,2} sep \d{1,2} sep \d{2,4}, pattern 2 is \d{4} sep \d{2} sep \d{2}.
Shape(k) ==
  IF k = 1 THEN [lo |-> <<1, 1, 2>>, hi |-> <<2, 2, 4>>]
  ELSE [lo |-> <<4, 2, 2>>, hi |-> <<4, 2, 2>>]

\* delivery\s*date\s*:\s* at q: the index where the date starts, 0 if the
\* label is not there.
LabelAt(s, q) ==
  IF ~At(s, q, "delivery") THEN 0
  ELSE LET j == SkipWS(s, q + 1) IN
       IF ~At(s, j, "date") THEN 0
       ELSE LET k == SkipWS(s, j + 1) IN
            IF ~At(s, k, ":") THEN 0 ELSE SkipWS(s, k + 1)

\* The first two fields of the date and their separators, at d: the index
\* where the third field starts, 0 if they are not there.  A field that
\* follows \s* or a separator and precedes a separator is a whole run of
\* digits.
ThirdAt(k, s, d) ==
  LET n1 == DigitRun(s, d)
      n2 == DigitRun(s, d + n1 + 1)
  IN IF /\ n1 >= Shape(k).lo[1] /\ n1 <= Shape(k).hi[1]
        /\ d + n1 <= Len(s) /\ s[d + n1] \in Seps
        /\ n2 >= Shape(k).lo[2] /\ n2 <= Shape(k).hi[2]
        /\ d + n1 + 1 + n2 <= Len(s) /\ s[d + n1 + 1 + n2] \in Seps
     THEN d + n1 + n2 + 2 ELSE 0

\* ------------------------------------------------ stripDeliveryDateBlock

\* The end of a block whose third field starts at t and is n3 digits long:
\* the index after \s*\)\s*, 0 if the field or the ")" is not there.
BlockEnd(k, s, t, n3) ==
  IF /\ t # 0 /\ n3 >= Shape(k).lo[3] /\ n3 <= Shape(k).hi[3]
     /\ At(s, SkipWS(s, t + n3), ")")
  THEN SkipWS(s, SkipWS(s, t + n3) + 1) ELSE 0

BlockDate(k, s, t) == BlockEnd(k, s, t, DigitRun(s, t))

BlockLabel(k, s, d) == IF d = 0 THEN 0 ELSE BlockDate(k, s, ThirdAt(k, s, d))

\* \(\s*delivery\s*date\s*:\s*<date>\s*\)\s* at q: the index after the match,
\* 0 if there is none.
StripBlockEnd(k, s, q) ==
  IF ~At(s, q, "(") THEN 0
  ELSE BlockLabel(k, s, LabelAt(s, SkipWS(s, q + 1)))

\* cleaned.replace(re, " ") for the global pattern k, scanning from i: the
\* leading greedy \s* makes a match start at i when a block starts where
\* the whitespace from i stops.
RECURSIVE ReplaceBlocks(_, _, _)
Replaced(k, s, i, e) ==
  IF e # 0 THEN <<SP>> \o ReplaceBlocks(k, s, e)
  ELSE <<s[i]>> \o ReplaceBlocks(k, s, i + 1)

ReplaceBlocks(k, s, i) ==
  IF i > Len(s) THEN << >>
  ELSE Replaced(k, s, i, StripBlockEnd(k, s, SkipWS(s, i)))

\* The first index >= i that holds no space or tab.
RECURSIVE SkipBlanks(_, _)
SkipBlanks(s, i) ==
  IF i <= Len(s) /\ s[i] \in Blanks THEN SkipBlanks(s, i + 1) ELSE i

\* .replace(/[ \t]+\n/g, "\n")
RECURSIVE TrimLineEnds(_, _)
LineEnd(s, i, r) ==
  IF r > i /\ At(s, r, NL) THEN <<NL>> \o TrimLineEnds(s, r + 1)
  ELSE <<s[i]>> \o TrimLineEnds(s, i + 1)

TrimLineEnds(s, i) ==
  IF i > Len(s) THEN << >> ELSE LineEnd(s, i, SkipBlanks(s, i))

RECURSIVE NewlineRun(_, _)
NewlineRun(s, i) == IF At(s, i, NL) THEN 1 + NewlineRun(s, i + 1) ELSE 0

\* .replace(/\n{3,}/g, "\n\n")
RECURSIVE CollapseNewlines(_, _)
Collapsed(s, i, n) ==
  IF n >= 3 THEN <<NL, NL>> \o CollapseNewlines(s, i + n)
  ELSE <<s[i]>> \o CollapseNewlines(s, i + 1)

CollapseNewlines(s, i) ==
  IF i > Len(s) THEN << >> ELSE Collapsed(s, i, NewlineRun(s, i))

\* { cleaned, changed: cleaned !== before.trim() }
Stripped(before, cleaned) ==
  [cleaned |-> cleaned, changed |-> cleaned # Trim(before)]

stripDeliveryDateBlock(note) ==
  IF note = << >> THEN [cleaned |-> << >>, changed |-> FALSE]
  ELSE Stripped(note,
         Trim(CollapseNewlines(TrimLineEnds(
           ReplaceBlocks(2, ReplaceBlocks(1, note, 1), 1), 1), 1)))

\* ---------------------------------------------------- extractDeliveryYMD

null == [null |-> TRUE]

\* Some ")" at or after i with no line break before it: where .*?\) can end.
RECURSIVE ClosesOnLine(_, _)
ClosesOnLine(s, i) ==
  IF i > Len(s) \/ s[i] = NL THEN FALSE
  ELSE IF s[i] = ")" THEN TRUE ELSE ClosesOnLine(s, i + 1)

\* The three fields of a date whose first field starts at d and whose third
\* starts at t, << >> if the third field or the ")" after it is missing.  The
\* third field is greedy and is followed by .*?, so it takes the first digits
\* of its run, at most its maximum.
Fields(k, s, d, t, n1, r3) ==
  LET n3 == IF r3 > Shape(k).hi[3] THEN Shape(k).hi[3] ELSE r3 IN
  IF n3 >= Shape(k).lo[3] /\ ClosesOnLine(s, t + n3)
  THEN << SubSeq(s, d, d + n1 - 1), SubSeq(s, d + n1 + 1, t - 2),
          SubSeq(s, t, t + n3 - 1) >>
  ELSE << >>

DateAt(k, s, d, t) ==
  IF t = 0 THEN << >>
  ELSE Fields(k, s, d, t, DigitRun(s, d), DigitRun(s, t))

LabelledDate(k, s, d) ==
  IF d = 0 THEN << >> ELSE DateAt(k, s, d, ThirdAt(k, s, d))

\* delivery\s*date\s*:\s*(f1)sep(f2)sep(f3).*?\) at q: the three captures,
\* << >> if there is no match.
Captures(k, s, q) == LabelledDate(k, s, LabelAt(s, q))

\* The lazy .*? after "(": the captures at the first index >= i on the same
\* line where the rest of the pattern matches, << >> if there is none.
RECURSIVE FirstLabel(_, _, _)
Found(k, s, i, c) ==
  IF c # << >> THEN c
  ELSE IF s[i] = NL THEN << >> ELSE FirstLabel(k, s, i + 1)

FirstLabel(k, s, i) ==
  IF i > Len(s) THEN << >> ELSE Found(k, s, i, Captures(k, s, i))

\* s.match(pattern k): the captures of the leftmost match, << >> if none.
RECURSIVE Match(_, _, _)
Opened(k, s, p, c) == IF c # << >> THEN c ELSE Match(k, s, p + 1)

Match(k, s, p) ==
  IF p > Len(s) THEN << >>
  ELSE IF s[p] = "(" THEN Opened(k, s, p, FirstLabel(k, s, p + 1))
  ELSE Match(k, s, p + 1)

\* The year of a day-month-year match: two digits are a year of 1970-2069.
Year(yy) ==
  IF Len(yy) = 2
  THEN (IF Number(yy) >= 70 THEN <<"1", "9">> \o yy ELSE <<"2", "0">> \o yy)
  ELSE yy

\* What extractDeliveryYMD returns for the captures of its two patterns.
Extracted(m1, m2) ==
  IF m1 # << >> THEN [y |-> Year(m1[3]), m |-> to2(m1[2]), d |-> to2(m1[1])]
  ELSE IF m2 # << >> THEN [y |-> m2[1], m |-> to2(m2[2]), d |-> to2(m2[3])]
  ELSE null

extractDeliveryYMD(note) ==
  IF note = << >> THEN null
  ELSE Extracted(Match(1, note, 1), Match(2, note, 1))

\* ------------------------------------------------------------------ tags

\* tagsString.split(",")
RECURSIVE Split(_, _)
Split(s, cur) ==
  IF s = << >> THEN <<cur>>
  ELSE IF s[1] = "," THEN <<cur>> \o Split(Tail(s), << >>)
  ELSE Split(Tail(s), Append(cur, s[1]))

RECURSIVE TrimNonEmpty(_)
NonEmpty(t, rest) ==
  IF t = << >> THEN TrimNonEmpty(rest) ELSE <<t>> \o TrimNonEmpty(rest)

\* .map((t) => t.trim()).filter(Boolean)
TrimNonEmpty(parts) ==
  IF parts = << >> THEN << >> ELSE NonEmpty(Trim(parts[1]), Tail(parts))

\* findDateTagsInTags, were the entries neither trimmed nor filtered.
findDateTagsInTags_untrimmed(tagsString) == Split(tagsString, << >>)

\* The tags field of findDateTagsInTags's result, the only one the handler
\* uses.
findDateTagsInTags(tagsString) == TrimNonEmpty(Split(tagsString, << >>))

AllDigits(t, from, to) == \A i \in from..to : t[i] \in Digits
\* /^\d{4}-\d{2}-\d{2}$/
reYMD(t) ==
  /\ Len(t) = 10 /\ t[5] = "-" /\ t[8] = "-"
  /\ AllDigits(t, 1, 4) /\ AllDigits(t, 6, 7) /\ AllDigits(t, 9, 10)
\* /^\d{2}-\d{2}-\d{4}$/
reDMY(t) ==
  /\ Len(t) = 10 /\ t[3] = "-" /\ t[6] = "-"
  /\ AllDigits(t, 1, 2) /\ AllDigits(t, 4, 5) /\ AllDigits(t, 7, 10)

IsDateTag(t) == reYMD(t) \/ reDMY(t)
\* The dateTags field of findDateTagsInTags's result.
dateTags(tags) == SelectSeq(tags, IsDateTag)

RECURSIVE Without(_, _)
Without(tagsArray, drop) ==
  IF tagsArray = << >> THEN << >>
  ELSE IF tagsArray[1] \in drop THEN Without(Tail(tagsArray), drop)
  ELSE <<tagsArray[1]>> \o Without(Tail(tagsArray), drop)

Includes(arr, x) == \E i \in 1..Len(arr) : arr[i] = x

\* if (!keep.includes(preferred)) keep.push(preferred)
PushUnlessIncluded(keep, preferred) ==
  IF Includes(keep, preferred) THEN keep ELSE Append(keep, preferred)

\* normalizeTagsKeepOneDate, were nothing removed before the push.
normalizeTagsKeepOneDate_appendOnly(pref, tagsArray, targetY, targetM, targetD) ==
  Append(tagsArray, formatTagByPreference(pref, targetY, targetM, targetD))

\* normalizeTagsKeepOneDate, were only the rendering in the other format
\* removed and the preferred one left where it is.
normalizeTagsKeepOneDate_otherFormatOnly(pref, tagsArray, targetY, targetM, targetD) ==
  PushUnlessIncluded(
    Without(tagsArray, {formatDateYMD(targetY, targetM, targetD),
                        formatDateDMY(targetY, targetM, targetD)}
                         \ {formatTagByPreference(pref, targetY, targetM, targetD)}),
    formatTagByPreference(pref, targetY, targetM, targetD))

\* normalizeTagsKeepOneDate, were every date tag removed, whatever its date.
normalizeTagsKeepOneDate_dropAllDates(pref, tagsArray, targetY, targetM, targetD) ==
  PushUnlessIncluded(
    Without(tagsArray, {t \in {tagsArray[i] : i \in 1..Len(tagsArray)} : IsDateTag(t)}
                         \cup {formatDateYMD(targetY, targetM, targetD),
                               formatDateDMY(targetY, targetM, targetD)}),
    formatTagByPreference(pref, targetY, targetM, targetD))

normalizeTagsKeepOneDate(pref, tagsArray, targetY, targetM, targetD) ==
  PushUnlessIncluded(
    Without(tagsArray, {formatDateYMD(targetY, targetM, targetD),
                        formatDateDMY(targetY, targetM, targetD)}),
    formatTagByPreference(pref, targetY, targetM, targetD))

\* nextTagsArr.join(", ")
RECURSIVE Join(_)
Join(arr) ==
  IF arr = << >> THEN << >>
  ELSE IF Len(arr) = 1 THEN arr[1]
  ELSE arr[1] \o <<",", SP>> \o Join(Tail(arr))

\* ----------------------------------------------------------- the request

\* (now.getTime() - createdAt.getTime()) / 1000: getTime counts milliseconds.
MsPerSec == 1000

\* The length of the base64 text of a SHA-256 digest.
DigestLen == 44

\* PREFERRED_TAG_FORMAT when the environment does not set it.
PREFERRED_TAG_FORMAT == "DMY"

SHOPIFY_WEBHOOK_SECRET == "secret"

\* The value of a header that the request does not carry.
undefined == [kind |-> "undefined"]
\* A header that is some text of n bytes and is no digest of anything.
Text(n) == [kind |-> "text", len |-> n]
\* crypto.createHmac("sha256", key).update(raw).digest("base64"): the
\* digest is a term over its key and the exact bytes it was computed over,
\* so two digests are equal only if both are.
Hmac(key, raw) == [kind |-> "mac", key |-> key, raw |-> raw]

ByteLength(h) == IF h.kind = "mac" THEN DigestLen ELSE h.len

\* crypto.timingSafeEqual throws when the two buffers differ in length.
timingSafeEqual(a, b) ==
  IF ByteLength(a) # ByteLength(b) THEN "throw"
  ELSE IF a = b THEN "true" ELSE "false"

\* verifyHmac, were it to compare the lengths only.
verifyHmac_lengthOnly(raw, hmacHeader, secret) ==
  LET digest == Hmac(secret, raw)
      given == IF hmacHeader = undefined THEN Text(0) ELSE hmacHeader
  IN IF ByteLength(digest) # ByteLength(given) THEN "throw" ELSE "true"

\* verifyHmac, were it to compute the digest over the re-encoded document
\* instead of the bytes received.
verifyHmac_reencoded(raw, hmacHeader, secret) ==
  LET digest == Hmac(secret, [raw EXCEPT !.pad = 0]) IN
  timingSafeEqual(digest, IF hmacHeader = undefined THEN Text(0) ELSE hmacHeader)

verifyHmac(raw, hmacHeader, secret) ==
  LET digest == Hmac(secret, raw) IN
  timingSafeEqual(digest, IF hmacHeader = undefined THEN Text(0) ELSE hmacHeader)

\* A raw body is the bytes of a JSON document (doc) followed by pad bytes of
\* insignificant whitespace, or bytes that are no JSON at all (json = FALSE).
\* JSON.parse(raw.toString("utf8")): the document, without the whitespace.
JSONparse(raw) == IF raw.json THEN raw.doc ELSE "throw"

\* payload.created_at as new Date reads it: absent, a text that is no date
\* (getTime() is NaN), or an instant in milliseconds.
Absent == [kind |-> "absent", ms |-> 0]
Invalid == [kind |-> "invalid", ms |-> 0]
Instant(t) == [kind |-> "date", ms |-> t]

\* withinWindow, were its upper bound exclusive.
withinWindow_exclusive(created_at, nowMs) ==
  IF created_at.kind # "date" THEN FALSE
  ELSE LET diffMs == nowMs - created_at.ms IN
       diffMs >= 0 /\ diffMs < CLEAN_WINDOW_SECONDS * MsPerSec

\* withinWindow, were a created_at that is no date read as the epoch.
withinWindow_epoch(created_at, nowMs) ==
  LET diffMs == nowMs - created_at.ms IN
  diffMs >= 0 /\ diffMs <= CLEAN_WINDOW_SECONDS * MsPerSec

\* diffSec >= 0 && diffSec <= CLEAN_WINDOW_SECONDS, with diffSec the
\* difference in milliseconds over 1000.
withinWindow(created_at, nowMs) ==
  IF created_at.kind # "date" THEN FALSE
  ELSE LET diffMs == nowMs - created_at.ms IN
       diffMs >= 0 /\ diffMs <= CLEAN_WINDOW_SECONDS * MsPerSec

\* allowedByTopic, were only the update events gated.
allowedByTopic_others(topic, within) ==
  topic # "orders/updated" \/ within

\* allowedByTopic, were the window forgotten.
allowedByTopic_always(topic, within) ==
  topic = "orders/create" \/ topic = "orders/updated"

allowedByTopic(topic, within) ==
  topic = "orders/create" \/ (topic = "orders/updated" /\ within)

\* updateOrder, were the PUT always sent to the first order.
updateOrder_firstOrder(orderId, nextTags, nextNote) ==
  [id |-> 1, tags |-> nextTags, note |-> nextNote]

\* The body of updateOrder's PUT: both fields are strings, so both are sent.
updateOrder(orderId, nextTags, nextNote) ==
  [id |-> orderId, tags |-> nextTags, note |-> nextNote]

\* NextTags, were the tag of the target date all that is written.
NextTags_dateOnly(currentTags, ymd) ==
  formatTagByPreference(PREFERRED_TAG_FORMAT, ymd.y, ymd.m, ymd.d)

\* The next tags of an order, serialized.
NextTags(currentTags, ymd) ==
  Join(normalizeTagsKeepOneDate(PREFERRED_TAG_FORMAT,
         findDateTagsInTags(currentTags), ymd.y, ymd.m, ymd.d))

\* Decide, were the tags left out of the decision to write.
Decide_noteOnly(currentTags, nextTags, stripped) ==
  [nextTags |-> nextTags, nextNote |-> stripped.cleaned,
   write |-> stripped.changed]

\* if (changed || nextTags !== currentTags)
Decide(currentTags, nextTags, stripped) ==
  [nextTags |-> nextTags, nextNote |-> stripped.cleaned,
   write |-> stripped.changed \/ nextTags # currentTags]

\* The handler between the answer of getOrder and its decision to write.
Candidate(current, ymd) ==
  Decide(current.tags, NextTags(current.tags, ymd),
         stripDeliveryDateBlock(current.note))

\* --------------------------------------------- the texts the model runs on

Str(s) == [str |-> s]
\* payload?.note || ""
OrEmpty(v) == IF v = null THEN << >> ELSE v.str

Label == <<"delivery", SP, "date", ":", SP>>
\* (Delivery Date: 26/08/2025)
DirDMY == <<"(">> \o Label \o <<"2", "6", "/", "0", "8", "/", "2", "0", "2", "5", ")">>
\* (Delivery Date: 2025-08-27)
DirYMD == <<"(">> \o Label \o <<"2", "0", "2", "5", "-", "0", "8", "-", "2", "7", ")">>
Prose == <<"h", "i">>
NoteDMY == Prose \o <<SP>> \o DirDMY
NoteYMD == DirYMD \o <<NL>> \o Prose
\* (x Delivery Date: 1/2/25 y): the label and a date between parentheses,
\* with other words around them.
NoteJunk == <<"(", "x", SP>> \o Label \o <<"1", "/", "2", "/", "2", "5", SP, "y", ")">>
\* Prose with a blank before it and no directive.
NotePadded == <<SP>> \o Prose
\* ((Delivery Date: 26/08/2025)Delivery Date: 26/08/2025)
NoteNested == <<"(">> \o DirDMY \o Tail(DirDMY)

TagDMY == <<"2", "6", "-", "0", "8", "-", "2", "0", "2", "5">>
TagYMD == <<"2", "0", "2", "5", "-", "0", "8", "-", "2", "6">>

OrderIds == {1}
\* The instant the order was created at, on the handler's clock: one second
\* after the clock starts, so that the clock can be behind it.
OrderCreatedAt == MsPerSec
\* The clock stops a second after the window has closed.
MaxNow == OrderCreatedAt + (CLEAN_WINDOW_SECONDS + 1) * MsPerSec

Topics == {"orders/create", "orders/updated", "orders/paid"}
CreatedAts == {Absent, Invalid, Instant(OrderCreatedAt)}
PayloadNotes == {null, Str(<< >>), Str(Prose), Str(NoteDMY), Str(NoteJunk)}

Doc(id, note, created_at) == [id |-> id, note |-> note, created_at |-> created_at]
Body(doc, pad) == [json |-> TRUE, doc |-> doc, pad |-> pad]
\* Bytes that are no JSON.
Garbage == [json |-> FALSE, doc |-> Doc(1, null, Absent), pad |-> 0]

Bodies == {Body(Doc(o, n, c), 0) : o \in OrderIds, n \in PayloadNotes, c \in CreatedAts}

Request(method, topic, hmac, raw) ==
  [method |-> method, topic |-> topic, hmac |-> hmac, raw |-> raw]

\* What the sender who holds the secret sends.
SignedRequests ==
  {Request("POST", t, Hmac(SHOPIFY_WEBHOOK_SECRET, b), b) :
     t \in Topics, b \in Bodies \cup {Garbage}}

\* A body worth forging: a creation event with a directive.
ProbeBody == Body(Doc(1, Str(NoteDMY), Instant(OrderCreatedAt)), 0)
\* The signature headers that are not the digest of the body they come with:
\* none, an empty one, a short one, one of the right length, a digest under
\* another key, and the digest of the same document with one byte of
\* whitespace more or less.
BadHeaders(b) ==
  {undefined, Text(0), Text(DigestLen - 1), Text(DigestLen),
   Hmac("guess", b), Hmac(SHOPIFY_WEBHOOK_SECRET, Body(b.doc, 1 - b.pad))}
ForgedRequests ==
  UNION {{Request("POST", "orders/create", h, b) : h \in BadHeaders(b)} :
           b \in {ProbeBody, Body(ProbeBody.doc, 1)}}
OtherMethods ==
  {Request("GET", "orders/create", Hmac(SHOPIFY_WEBHOOK_SECRET, ProbeBody), ProbeBody)}

Requests == SignedRequests \cup ForgedRequests \cup OtherMethods

StoreNotes == {<< >>, NoteDMY, NotePadded}
StoreTags == {<< >>, <<"v">>, <<"v", ",", SP>> \o TagDMY, TagYMD \o <<",", "v">>}
HumanNotes == {<<"o", "k">>, NoteYMD}
HumanTags == {<<"w">>}

\* ------------------------------------------ texts made of pieces, bounded

\* How many pieces a note is made of at most.
MaxPieces == 3
\* How many entries the tags of an order hold at most.
MaxTags == 3

\* All the texts of at most n pieces, one after the other.
RECURSIVE Texts(_, _)
Longer(shorter, pieces) ==
  shorter \cup {t \o p : t \in shorter, p \in pieces}

Texts(pieces, n) ==
  IF n = 0 THEN {<< >>} ELSE Longer(Texts(pieces, n - 1), pieces)

Dir(date) == <<"(">> \o Label \o date \o <<")">>
\* (Delivery Date: 1/2/25) and (Delivery Date: 31/12/70): two-digit years.
DirYY25 == Dir(<<"1", "/", "2", "/", "2", "5">>)
DirYY70 == Dir(<<"3", "1", "/", "1", "2", "/", "7", "0">>)
\* (Delivery Date: 1/2/202): a year of three digits.
DirYYY == Dir(<<"1", "/", "2", "/", "2", "0", "2">>)
\* (Delivery Date: 32/13/1850): no day, no month and a year long past.
DirOdd == Dir(<<"3", "2", "/", "1", "3", "/", "1", "8", "5", "0">>)

\* What the notes of the store are made of: a parenthesis, whitespace, a
\* word, whole directives in both orders, and directives without their "(".
NotePieces ==
  {<<"(">>, <<SP>>, <<NL>>, <<"x">>, DirDMY, DirYMD, Tail(DirDMY), Tail(DirYMD)}
NoteTexts == Texts(NotePieces, MaxPieces)

\* What the notes of the payloads are made of.
PayloadPieces ==
  {<<"(">>, <<"x">>, <<NL>>, DirDMY, DirYMD, DirYY25, DirYY70, DirYYY, DirOdd,
   Tail(DirDMY)}
PayloadTexts == Texts(PayloadPieces, MaxPieces)

\* 27-08-2025 and 2025-08-27: the date of DirYMD, which is not that of DirDMY.
Tag27DMY == <<"2", "7", "-", "0", "8", "-", "2", "0", "2", "5">>
Tag27YMD == <<"2", "0", "2", "5", "-", "0", "8", "-", "2", "7">>

\* The entries of a tags field: a word, a word with a blank before it, an
\* empty entry, and two dates in both formats.
TagPool == {<<"v">>, <<SP, "w">>, << >>, TagDMY, TagYMD, Tag27DMY, Tag27YMD}

\* arr joined by sep.
RECURSIVE JoinWith(_, _)
JoinWith(arr, sep) ==
  IF arr = << >> THEN << >>
  ELSE IF Len(arr) = 1 THEN arr[1]
  ELSE arr[1] \o sep \o JoinWith(Tail(arr), sep)

\* The tags fields of at most MaxTags entries taken from the pool, as the
\* store serializes them (", ") or as somebody typed them (",").
TagTexts ==
  {JoinWith(arr, sep) :
     arr \in UNION {[1..n -> TagPool] : n \in 0..MaxTags},
     sep \in {<<",">>, <<",", SP>>}}


\* ------------------------------------------------------------- the state

VARIABLES
  now,        \* the handler's clock, in milliseconds
  orders,     \* the store: the tags and the note of each order
  orders0,    \* the store as it was at the start
  inv,        \* the invocations of the handler
  late,       \* per order, the fields a human set after the window closed
  overwrote   \* the invocations whose write changed such a field

vars == <<now, orders, orders0, inv, late, overwrote>>

Invocations == {1, 2}

Idle ==
  [pc |-> "idle", req |-> Request("POST", "orders/create", undefined, Garbage),
   status |-> 0, verified |-> "none", parsed |-> FALSE, gated |-> FALSE,
   nowAtGate |-> 0, within |-> FALSE, allowed |-> FALSE, ymd |-> null,
   fetches |-> 0, writes |-> 0, current |-> null, put |-> null,
   failed |-> "none"]

\* res.status(code).send(...): the invocation ends.
Respond(i, code, fields) ==
  inv' = [inv EXCEPT ![i] = fields @@ [pc |-> "done", status |-> code] @@ @]

Set(i, fields) == inv' = [inv EXCEPT ![i] = fields @@ @]

\* The catch, were what it caught acknowledged like a success.
Failure_acknowledged(i, what, fields) ==
  Respond(i, 200, fields @@ [failed |-> what])

\* The catch, were nothing sent from it: the invocation ends unanswered.
Failure_silent(i, what, fields) ==
  Set(i, fields @@ [failed |-> what, pc |-> "failed"])

\* catch (e) { ... res.status(500).send("error") }: whatever is thrown while
\* the body is read, verified and parsed, and by getOrder and updateOrder,
\* ends the invocation with 500.
Failure(i, what, fields) ==
  Respond(i, 500, fields @@ [failed |-> what])

store == <<orders, orders0, late, overwrote>>

\* -------------------------------------------------------------- the store

\* The window of order o has closed on the clock.
WindowClosed(o) == now - OrderCreatedAt > CLEAN_WINDOW_SECONDS * MsPerSec

\* Somebody edits the note or the tags of order o in the store's own admin.
HumanEdit(o, field, text) ==
  /\ orders[o][field] # text
  /\ orders' = [orders EXCEPT ![o][field] = text]
  /\ late' = IF WindowClosed(o)
             THEN [late EXCEPT ![o] = @ \cup {field}] ELSE late
  /\ UNCHANGED <<now, orders0, inv, overwrote>>

\* Time passes.
Tick(ms) ==
  /\ now + ms <= MaxNow
  /\ now' = now + ms
  /\ UNCHANGED <<inv, store>>

\* ------------------------------------------------------------ the handler

\* A request arrives; a method other than POST is answered at once, and the
\* handler then waits for the body.
Receive(i, r) ==
  /\ inv[i].pc = "idle"
  /\ IF r.method # "POST"
     THEN Respond(i, 405, [req |-> r])
     ELSE Set(i, [pc |-> "body", req |-> r])
  /\ UNCHANGED <<now, store>>

\* The body has been read: the signature is checked over it.
Verify(i) ==
  /\ inv[i].pc = "body"
  /\ LET r == inv[i].req
         v == verifyHmac(r.raw, r.hmac, SHOPIFY_WEBHOOK_SECRET)
     IN CASE v = "throw" -> Failure(i, "verify", [verified |-> v])
          [] v = "false" -> Respond(i, 401, [verified |-> v])
          [] OTHER -> Set(i, [pc |-> "verified", verified |-> v])
  /\ UNCHANGED <<now, store>>

\* Gated, were the write sent at once, without asking for the order: the
\* tags and the note are computed from the payload.
Gated_direct(i, within, allowed, ymd) ==
  IF ~allowed \/ ymd = null
  THEN Respond(i, 200, [parsed |-> TRUE, gated |-> TRUE, nowAtGate |-> now,
                        within |-> within, allowed |-> allowed])
  ELSE Set(i, [pc |-> "writing", parsed |-> TRUE, gated |-> TRUE,
               nowAtGate |-> now, within |-> within, allowed |-> allowed,
               ymd |-> ymd, writes |-> inv[i].writes + 1,
               put |-> updateOrder(JSONparse(inv[i].req.raw).id,
                         NextTags(<< >>, ymd),
                         stripDeliveryDateBlock(
                           OrEmpty(JSONparse(inv[i].req.raw).note)).cleaned)])

\* The gate has decided: an event that is not allowed, or whose note holds
\* no date, is acknowledged; for any other the order is asked for.
Gated(i, within, allowed, ymd) ==
  IF ~allowed \/ ymd = null
  THEN Respond(i, 200, [parsed |-> TRUE, gated |-> TRUE, nowAtGate |-> now,
                        within |-> within, allowed |-> allowed])
  ELSE Set(i, [pc |-> "fetching", parsed |-> TRUE, gated |-> TRUE,
               nowAtGate |-> now, within |-> within, allowed |-> allowed,
               ymd |-> ymd, fetches |-> inv[i].fetches + 1])

Gate(i, topic, payload, within) ==
  Gated(i, within, allowedByTopic(topic, within),
        extractDeliveryYMD(OrEmpty(payload.note)))

\* The body is parsed, the gate decides, the date is looked for in the
\* payload's note, and the order is asked for.
ParseAndGate(i) ==
  /\ inv[i].pc = "verified"
  /\ IF ~inv[i].req.raw.json
     THEN Failure(i, "parse", [parsed |-> TRUE])
     ELSE Gate(i, inv[i].req.topic, JSONparse(inv[i].req.raw),
               withinWindow(JSONparse(inv[i].req.raw).created_at, now))
  /\ UNCHANGED <<now, store>>

\* Fetched, were the note that is written the cleaned note of the payload.
Fetched_snapshot(i, orderId, current, next) ==
  IF next.write
  THEN Set(i, [pc |-> "writing", current |-> current,
               put |-> updateOrder(orderId, next.nextTags,
                         stripDeliveryDateBlock(
                           OrEmpty(JSONparse(inv[i].req.raw).note)).cleaned),
               writes |-> inv[i].writes + 1])
  ELSE Respond(i, 200, [current |-> current])

\* The order has come: the next tags and note are computed from it and, if
\* they differ, sent.
Fetched(i, orderId, current, next) ==
  IF next.write
  THEN Set(i, [pc |-> "writing", current |-> current,
               put |-> updateOrder(orderId, next.nextTags, next.nextNote),
               writes |-> inv[i].writes + 1])
  ELSE Respond(i, 200, [current |-> current])

\* getOrder answers: with an error, or with the order as the store holds it.
FetchReturn(i, ok) ==
  /\ inv[i].pc = "fetching"
  /\ IF ~ok
     THEN Failure(i, "fetch", << >>)
     ELSE Fetched(i, JSONparse(inv[i].req.raw).id,
                  orders[JSONparse(inv[i].req.raw).id],
                  Candidate(orders[JSONparse(inv[i].req.raw).id], inv[i].ymd))
  /\ UNCHANGED <<now, store>>

\* updateOrder answers: with an error and nothing stored, or the store has
\* taken the fields of the body.
WriteReturn(i, ok) ==
  /\ inv[i].pc = "writing"
  /\ IF ~ok
     THEN /\ Failure(i, "write", << >>)
          /\ UNCHANGED <<now, store>>
     ELSE LET body == inv[i].put
              o == body.id
              stored == [orders[o] EXCEPT !.tags = body.tags, !.note = body.note]
          IN /\ Respond(i, 200, << >>)
             /\ orders' = [orders EXCEPT ![o] = stored]
             /\ overwrote' = IF \E f \in late[o] : stored[f] # orders[o][f]
                             THEN overwrote \cup {i} ELSE overwrote
             /\ UNCHANGED <<now, orders0, late>>

\* ------------------------------------------------------ the specifications

InitWith(records) ==
  /\ now = 0
  /\ orders \in [OrderIds -> records]
  /\ orders0 = orders
  /\ inv = [i \in Invocations |-> Idle]
  /\ late = [o \in OrderIds |-> {}]
  /\ overwrote = {}

Handle(i, requests) ==
  \/ \E r \in requests : Receive(i, r)
  \/ Verify(i)
  \/ ParseAndGate(i)
  \/ \E ok \in BOOLEAN : FetchReturn(i, ok)
  \/ \E ok \in BOOLEAN : WriteReturn(i, ok)

\* One invocation, any request, at any time.
Init == InitWith([tags : StoreTags, note : StoreNotes])

Next ==
  \/ \E ms \in {MsPerSec \div 2, MsPerSec} : Tick(ms)
  \/ Handle(1, Requests)

Spec == Init /\ [][Next]_vars

\* One invocation that makes progress: the body of a request that was
\* received arrives, the code between two awaits runs, and each call to
\* the store comes back, with the order or with an error.
\* Weak fairness of ParseAndGate(i), written out: the step is enabled
\* exactly at "verified" (its only guard) and always leaves that position,
\* so ENABLED <<ParseAndGate(i)>>_vars is inv[i].pc = "verified".
ParseAndGateFair(i) ==
  \/ []<>(inv[i].pc # "verified")
  \/ []<><<ParseAndGate(i)>>_vars

Progress(i) ==
  /\ WF_vars(Verify(i))
  /\ ParseAndGateFair(i)
  /\ WF_vars(\E ok \in BOOLEAN : FetchReturn(i, ok))
  /\ WF_vars(\E ok \in BOOLEAN : WriteReturn(i, ok))

\* A request for each way through the handler: no POST, a signature of the
\* wrong length and a wrong one of the right length, a signed body that is
\* no JSON, and signed events with and without a directive.
LiveRequests ==
  OtherMethods
    \cup {Request("POST", "orders/create", h, ProbeBody) :
            h \in {undefined, Text(DigestLen)}}
    \cup {Request("POST", t, Hmac(SHOPIFY_WEBHOOK_SECRET, b), b) :
            t \in {"orders/create", "orders/updated"},
            b \in {Garbage, ProbeBody,
                   Body(Doc(1, Str(Prose), Instant(OrderCreatedAt)), 0)}}

InitLive == InitWith([tags : {<<"v">>}, note : {NoteDMY, Prose}])

NextLive ==
  \/ \E ms \in {MsPerSec} : Tick(ms)
  \/ Handle(1, LiveRequests)

SpecLive == InitLive /\ [][NextLive]_vars /\ Progress(1)

\* One invocation for a signed notification whose note holds a directive,
\* while time passes and people edit the order.
EditRequests ==
  {Request("POST", t, Hmac(SHOPIFY_WEBHOOK_SECRET, ProbeBody), ProbeBody) :
     t \in Topics}

InitEdit == InitWith([tags : {<<"v">>}, note : {NoteDMY}])

NextEdit ==
  \/ \E ms \in {MsPerSec \div 2, MsPerSec} : Tick(ms)
  \/ \E o \in OrderIds, text \in HumanNotes : HumanEdit(o, "note", text)
  \/ \E o \in OrderIds, text \in HumanTags : HumanEdit(o, "tags", text)
  \/ Handle(1, EditRequests)

SpecEdit == InitEdit /\ [][NextEdit]_vars

\* Two invocations for creation events of the same order, and nobody else.
RaceRequests ==
  {Request("POST", "orders/create", Hmac(SHOPIFY_WEBHOOK_SECRET, b), b) :
     b \in {Body(Doc(1, Str(n), Instant(OrderCreatedAt)), 0) : n \in {NoteDMY, NoteYMD}}}

InitRace == InitWith([tags : StoreTags, note : StoreNotes \cup {NoteNested}])

NextRace == \E i \in Invocations : Handle(i, RaceRequests)

SpecRace == InitRace /\ [][NextRace]_vars

\* One invocation for a creation event whose note holds (Delivery Date:
\* 26/08/2025), against an order whose note is any text of the pieces.
NoteRequests ==
  {Request("POST", "orders/create", Hmac(SHOPIFY_WEBHOOK_SECRET, ProbeBody), ProbeBody)}

InitNotes == InitWith([tags : {<<"v">>}, note : NoteTexts])

NextNotes == Handle(1, NoteRequests)

SpecNotes == InitNotes /\ [][NextNotes]_vars

\* One invocation for a creation event for the 26th or for the 27th, against
\* an order whose tags are any tags of the pool.
TagRequests ==
  {Request("POST", "orders/create", Hmac(SHOPIFY_WEBHOOK_SECRET, b), b) :
     b \in {Body(Doc(1, Str(n), Instant(OrderCreatedAt)), 0) : n \in {NoteDMY, NoteYMD}}}

InitTags == InitWith([tags : TagTexts, note : {NoteDMY}])

NextTagsSpec == Handle(1, TagRequests)

SpecTags == InitTags /\ [][NextTagsSpec]_vars

\* One invocation for a creation event whose note is any text of the pieces.
PayloadRequests ==
  {Request("POST", "orders/create", Hmac(SHOPIFY_WEBHOOK_SECRET, b), b) :
     b \in {Body(Doc(1, Str(n), Instant(OrderCreatedAt)), 0) : n \in PayloadTexts}}

InitPayload == InitWith([tags : {<<"v">>}, note : {NoteDMY}])

NextPayload == Handle(1, PayloadRequests)

SpecPayload == InitPayload /\ [][NextPayload]_vars

\* Two orders in the store and two invocations, each for a creation event of
\* either order, whose note asks for the 26th or for the 27th.
TwoOrders == {1, 2}

TwoRequests ==
  {Request("POST", "orders/create", Hmac(SHOPIFY_WEBHOOK_SECRET, b), b) :
     b \in {Body(Doc(o, Str(n), Instant(OrderCreatedAt)), 0) :
              o \in TwoOrders, n \in {NoteDMY, NoteYMD}}}

InitTwo ==
  /\ now = 0
  /\ orders \in [TwoOrders -> [tags : {<<"v">>, TagYMD \o <<",", "v">>},
                                note : {NoteDMY, NotePadded}]]
  /\ orders0 = orders
  /\ inv = [i \in Invocations |-> Idle]
  /\ late = [o \in TwoOrders |-> {}]
  /\ overwrote = {}

NextTwo == \E i \in Invocations : Handle(i, TwoRequests)

SpecTwo == InitTwo /\ [][NextTwo]_vars


\* ================================================================ claims

\* The signature header of r is the digest of r's own bytes under the secret.
Authentic(r) == r.hmac = Hmac(SHOPIFY_WEBHOOK_SECRET, r.raw)

Payload(i) == inv[i].req.raw.doc
Topic(i) == inv[i].req.topic
\* Milliseconds from the payload's created_at to the clock as the gate of
\* invocation i read it.
Age(i) == inv[i].nowAtGate - Payload(i).created_at.ms
WindowMs == CLEAN_WINDOW_SECONDS * MsPerSec
NoStoreCall(i) == inv[i].fetches = 0 /\ inv[i].writes = 0
SilentNoOp(i) == inv[i].pc = "done" /\ inv[i].status = 200 /\ NoStoreCall(i)

\* C1: a POST whose signature header is missing, empty, of another length
\* than the digest, or otherwise not the digest of its body makes verifyHmac
\* return false, never throw, and is answered 401, not 500.
C1_BadSignatureIs401 ==
  \A i \in Invocations :
    (inv[i].pc = "done" /\ inv[i].req.method = "POST" /\ ~Authentic(inv[i].req))
      => (inv[i].verified = "false" /\ inv[i].status = 401)

\* C2: the body is parsed only after its signature has verified, and an
\* invocation whose signature did not verify never parses the payload, never
\* fetches the order and never writes to the store.
C2_AuthenticationFirst ==
  \A i \in Invocations :
    /\ inv[i].parsed => inv[i].verified = "true"
    /\ (inv[i].pc # "idle" /\ ~Authentic(inv[i].req))
         => (~inv[i].parsed /\ ~inv[i].gated /\ NoStoreCall(i) /\ orders = orders0)

C2_Witness ==
  \E i \in Invocations :
    /\ inv[i].pc = "done" /\ inv[i].req.method = "POST"
    /\ ~Authentic(inv[i].req) /\ inv[i].verified = "false"
    /\ inv[i].status = 401 /\ ~inv[i].parsed

\* C3: a signature computed over a body that differs byte for byte from the
\* one received, but decodes to the same JSON, does not verify: the request is
\* rejected with 401 and never parsed.
SignedOverTwin(r) ==
  /\ r.hmac.kind = "mac" /\ r.hmac.key = SHOPIFY_WEBHOOK_SECRET
  /\ r.hmac.raw # r.raw
  /\ r.hmac.raw.json /\ r.raw.json
  /\ JSONparse(r.hmac.raw) = JSONparse(r.raw)

C3_RawBytesOnly ==
  \A i \in Invocations :
    (inv[i].pc # "idle" /\ inv[i].req.method = "POST" /\ SignedOverTwin(inv[i].req))
      => /\ inv[i].verified \in {"none", "false"}
         /\ ~inv[i].parsed
         /\ inv[i].pc = "done" => inv[i].status = 401

C3_Witness ==
  \E i \in Invocations :
    /\ inv[i].pc = "done" /\ SignedOverTwin(inv[i].req)
    /\ inv[i].verified = "false" /\ inv[i].status = 401

\* C4: an authenticated update event is eligible if and only if
\* 0 <= now - createdAt <= windowSeconds, the upper bound included and a
\* createdAt in the future excluded; a creation event is always eligible.
C4_GateWindow ==
  \A i \in Invocations :
    inv[i].gated =>
      /\ (Topic(i) = "orders/updated" /\ Payload(i).created_at.kind = "date")
           => (inv[i].allowed <=> (0 <= Age(i) /\ Age(i) <= WindowMs))
      /\ Topic(i) = "orders/create" => inv[i].allowed
      /\ ~inv[i].allowed => NoStoreCall(i)

\* An update event gated exactly windowSeconds after the creation went on to
\* fetch the order.
C4_Witness ==
  \E i \in Invocations :
    /\ inv[i].gated /\ Topic(i) = "orders/updated"
    /\ Payload(i).created_at.kind = "date" /\ Age(i) = WindowMs
    /\ inv[i].allowed /\ inv[i].fetches = 1

\* C5: for every event kind, an event whose created_at is missing or
\* unparsable is not eligible, and no fetch or write is issued.
C5_FailClosedEveryKind ==
  \A i \in Invocations :
    (inv[i].gated /\ Payload(i).created_at.kind # "date")
      => (~inv[i].allowed /\ NoStoreCall(i))

\* C5 as amended: for every event kind but creation, an event whose
\* created_at is missing or unparsable is not eligible and ends as a no-op
\* with no fetch or write; a creation event is eligible whatever its
\* created_at.
C5_FailClosedButCreation ==
  \A i \in Invocations :
    (inv[i].gated /\ Payload(i).created_at.kind # "date")
      => IF Topic(i) = "orders/create" THEN inv[i].allowed
         ELSE ~inv[i].allowed /\ SilentNoOp(i)

C5_Witness ==
  \E i \in Invocations :
    /\ inv[i].gated /\ Topic(i) = "orders/updated"
    /\ Payload(i).created_at.kind # "date"
    /\ extractDeliveryYMD(OrEmpty(Payload(i).note)) # null
    /\ SilentNoOp(i)

\* C6: an authenticated invocation that is not eligible, being an update
\* outside the window or an event of a kind other than creation and update,
\* ends with the 200 acknowledgment and issues neither a fetch nor a write.
OutsideWindow(i) ==
  Payload(i).created_at.kind = "date" /\ (Age(i) < 0 \/ Age(i) > WindowMs)

C6_IneligibleIsNoOp ==
  \A i \in Invocations :
    (/\ inv[i].gated
     /\ \/ Topic(i) = "orders/updated" /\ OutsideWindow(i)
        \/ Topic(i) \notin {"orders/create", "orders/updated"})
      => (SilentNoOp(i) /\ orders = orders0)

C6_Witness ==
  \E i \in Invocations :
    /\ inv[i].gated /\ Topic(i) = "orders/updated" /\ Age(i) > WindowMs
    /\ extractDeliveryYMD(OrEmpty(Payload(i).note)) # null
    /\ SilentNoOp(i)

\* C7: once more than windowSeconds have passed since the order's creation,
\* what a human then sets in the note or the tags is never overwritten by
\* any invocation, whatever notifications arrive and whenever.
C7_LateEditsNeverOverwritten == overwrote = {}

\* C7 as amended: once more than windowSeconds have passed since the order's
\* creation, what a human then sets in the note or the tags is never
\* overwritten by an invocation for an update event that reaches the gate
\* after that moment (it neither fetches nor writes); a creation event,
\* however late or re-delivered, and an update event gated inside the window
\* whose write lands later, can still overwrite it.
LateUpdate(i) ==
  /\ inv[i].gated /\ Topic(i) = "orders/updated"
  /\ Payload(i).created_at = Instant(OrderCreatedAt)
  /\ Age(i) > WindowMs

C7_LateUpdatesNeverOverwrite ==
  \A i \in Invocations :
    LateUpdate(i) => (i \notin overwrote /\ SilentNoOp(i))

\* A human set the note after the window closed, a late update event came
\* with a directive in its note, and the human's note is still there.
C7_Witness ==
  \E i \in Invocations :
    /\ LateUpdate(i) /\ inv[i].pc = "done"
    /\ extractDeliveryYMD(OrEmpty(Payload(i).note)) # null
    /\ "note" \in late[1] /\ orders[1].note = NoteYMD

\* A directive block as the data model defines it: "(", the label, ":", a
\* date in day-month-year or year-month-day order, ")", with whitespace
\* allowed between them and nothing else.
HasDirective(s) ==
  \E p \in 1..Len(s), k \in {1, 2} : StripBlockEnd(k, s, p) # 0

\* C8: when the note of the payload holds no directive block, or is absent
\* or empty, the invocation ends with the 200 acknowledgment without a fetch
\* and without a write.
C8_NoDirectiveNoFetch ==
  \A i \in Invocations :
    (inv[i].gated /\ ~HasDirective(OrEmpty(Payload(i).note)))
      => (SilentNoOp(i) /\ orders = orders0)

\* The next tags and the cleaned note of a fetched order, from the parts.
NextTagsOf(rec, ymd) ==
  Join(normalizeTagsKeepOneDate(PREFERRED_TAG_FORMAT, findDateTagsInTags(rec.tags),
                                ymd.y, ymd.m, ymd.d))
CleanedOf(rec) == stripDeliveryDateBlock(rec.note).cleaned

WritesOnce(i, differs) ==
  IF differs
  THEN /\ inv[i].writes = 1
       /\ inv[i].put = [id |-> Payload(i).id,
                        tags |-> NextTagsOf(inv[i].current, inv[i].ymd),
                        note |-> CleanedOf(inv[i].current)]
  ELSE inv[i].writes = 0 /\ inv[i].put = null

\* C9: after the fetch, the invocation issues exactly one write, carrying
\* both the tags and the note, if the stripped note differs from the current
\* note or the serialized next tags differ from the serialized current tags,
\* and no write otherwise.
C9_WriteIffDiffers ==
  \A i \in Invocations :
    inv[i].current # null =>
      WritesOnce(i, \/ CleanedOf(inv[i].current) # inv[i].current.note
                    \/ NextTagsOf(inv[i].current, inv[i].ymd) # inv[i].current.tags)

\* C9 as amended: after the fetch, the invocation issues exactly one write,
\* carrying both the tags and the note, if the stripped note differs from
\* the current note with its leading and trailing whitespace removed, or the
\* serialized next tags differ from the serialized current tags, and no
\* write otherwise.
C9_WriteIffChanged ==
  \A i \in Invocations :
    inv[i].current # null =>
      WritesOnce(i, \/ CleanedOf(inv[i].current) # Trim(inv[i].current.note)
                    \/ NextTagsOf(inv[i].current, inv[i].ymd) # inv[i].current.tags)

\* A write of both fields has reached the store.
C9_Witness ==
  \E i \in Invocations :
    /\ inv[i].current # null /\ inv[i].writes = 1
    /\ inv[i].pc = "done" /\ inv[i].status = 200
    /\ orders[1].tags = inv[i].put.tags /\ orders[1].note = inv[i].put.note
    /\ orders[1] # orders0[1]

\* What one invocation for a notification with date ymd, run alone, leaves
\* of the order rec.
SingleRun(rec, ymd) ==
  LET next == Candidate(rec, ymd) IN
  IF next.write
  THEN [rec EXCEPT !.tags = next.nextTags, !.note = next.nextNote]
  ELSE rec

\* C10: when two invocations for the same notification run against the same
\* order, then however their fetches and writes interleave, the tags and the
\* note the store ends with are those a single invocation would have left.
C10_RacingDuplicatesHarmless ==
  (/\ inv[1].req = inv[2].req
   /\ \A i \in Invocations :
        inv[i].pc = "done" /\ inv[i].status = 200 /\ inv[i].current # null)
    => orders[1] = SingleRun(orders0[1], inv[1].ymd)

\* The tags and the note invocation j left in the store: what it wrote, or
\* what it fetched when it found nothing to write.
Left(j) ==
  IF inv[j].writes = 1
  THEN [tags |-> inv[j].put.tags, note |-> inv[j].put.note]
  ELSE inv[j].current

\* Invocation i ran the notification of j against the state j had left.
RanAgain(i, j) ==
  /\ i # j /\ inv[i].req = inv[j].req
  /\ inv[j].pc = "done" /\ inv[j].status = 200 /\ inv[j].current # null
  /\ inv[i].current # null /\ inv[i].current = Left(j)

\* C11: once an invocation has completed its fetch, compute and write, the
\* same notification run again against the state it left computes no change
\* and issues no write.
C11_ReapplyIsNoOp ==
  \A i, j \in Invocations : RanAgain(i, j) => inv[i].writes = 0

\* Strip applied to the note invocation i fetched, and to what that returns.
Once(i) == stripDeliveryDateBlock(inv[i].current.note)
Twice(i) == stripDeliveryDateBlock(Once(i).cleaned)

\* C12: for every text, stripping the cleaned text that strip returned gives
\* the same cleaned text again, with changed = false.
C12_StripIdempotent ==
  \A i \in Invocations :
    inv[i].current # null
      => (Twice(i).cleaned = Once(i).cleaned /\ ~Twice(i).changed)

\* C13: for every text, the cleaned text that strip returns holds no
\* directive block, of either field order and either separator.
C13_StripRemovesEvery ==
  \A i \in Invocations :
    inv[i].current # null => ~HasDirective(Once(i).cleaned)

\* The end of the directive block that starts at p, 0 if none does.
DirectiveEnd(e1, e2) == IF e1 # 0 THEN e1 ELSE e2

\* s from i on without its directive blocks.
RECURSIVE WithoutDirectives(_, _)
Skipped(s, i, e) ==
  IF e # 0 THEN WithoutDirectives(s, e)
  ELSE <<s[i]>> \o WithoutDirectives(s, i + 1)

WithoutDirectives(s, i) ==
  IF i > Len(s) THEN << >>
  ELSE Skipped(s, i, DirectiveEnd(StripBlockEnd(1, s, i), StripBlockEnd(2, s, i)))

NotWS(c) == c \notin WS
\* The characters of s that are no whitespace, in their order.
Content(s) == SelectSeq(s, NotWS)

\* The directive blocks of s, from i on, in their order.
RECURSIVE DirectivesOf(_, _)
Block(s, i, e) ==
  IF e # 0 THEN <<Content(SubSeq(s, i, e - 1))>> \o DirectivesOf(s, e)
  ELSE DirectivesOf(s, i + 1)

DirectivesOf(s, i) ==
  IF i > Len(s) THEN << >>
  ELSE Block(s, i, DirectiveEnd(StripBlockEnd(1, s, i), StripBlockEnd(2, s, i)))

\* The first directive block of s from i on, with the whitespace the pattern
\* takes after it; << >> if there is none.
RECURSIVE FirstDirective(_, _)
FirstBlock(s, i, e) ==
  IF e # 0 THEN SubSeq(s, i, e - 1) ELSE FirstDirective(s, i + 1)

FirstDirective(s, i) ==
  IF i > Len(s) THEN << >>
  ELSE FirstBlock(s, i, DirectiveEnd(StripBlockEnd(1, s, i), StripBlockEnd(2, s, i)))

\* C14: for every note, what the cleaned text holds besides whitespace is what
\* the note holds besides its directive blocks and whitespace, in the same
\* order; and from a note with the one directive (Delivery Date: 26/08/2025)
\* and prose around it, extract yields year 2025, month 8, day 26.
C14_StripKeepsTheRest ==
  \A i \in Invocations :
    /\ inv[i].current # null
         => Content(Once(i).cleaned) = Content(WithoutDirectives(inv[i].current.note, 1))
    /\ (/\ inv[i].gated
        /\ Len(DirectivesOf(OrEmpty(Payload(i).note), 1)) = 1
        /\ TrimRight(FirstDirective(OrEmpty(Payload(i).note), 1)) = DirDMY)
         => /\ inv[i].ymd # null
            /\ Number(inv[i].ymd.y) = 2025
            /\ Number(inv[i].ymd.m) = 8
            /\ Number(inv[i].ymd.d) = 26

\* The two values of the preference: "YMD", and anything else.
Formats == {"DMY", "YMD"}

\* The tags invocation i fetched, as the handler reads them, and what
\* normalize makes of a tag sequence for the date of i.
FetchedTags(i) == findDateTagsInTags(inv[i].current.tags)
Normalize(i, pref, tags) ==
  normalizeTagsKeepOneDate(pref, tags, inv[i].ymd.y, inv[i].ymd.m, inv[i].ymd.d)

\* t renders the date ymd in one of the two formats.
Renders(t, ymd) ==
  \/ t = formatDateYMD(ymd.y, ymd.m, ymd.d)
  \/ t = formatDateDMY(ymd.y, ymd.m, ymd.d)

\* The invocation has fetched, computed and ended with the acknowledgment.
PassDone(i) ==
  inv[i].pc = "done" /\ inv[i].status = 200 /\ inv[i].current # null

\* C15: for every tag sequence T and target date d, normalize applied to
\* normalize(T, d) with the same d returns normalize(T, d), as a sequence.
C15_NormalizeIdempotent ==
  \A i \in Invocations :
    inv[i].current # null =>
      \A pref \in Formats :
        Normalize(i, pref, Normalize(i, pref, FetchedTags(i)))
          = Normalize(i, pref, FetchedTags(i))

\* The tags fetched held the target date in both formats and a tag besides,
\* and the normalized tags have been written.
C15_Witness ==
  \E i \in Invocations :
    /\ PassDone(i) /\ inv[i].writes = 1
    /\ \E a, b, c \in 1..Len(FetchedTags(i)) :
         /\ FetchedTags(i)[a] = formatDateYMD(inv[i].ymd.y, inv[i].ymd.m, inv[i].ymd.d)
         /\ FetchedTags(i)[b] = formatDateDMY(inv[i].ymd.y, inv[i].ymd.m, inv[i].ymd.d)
         /\ ~IsDateTag(FetchedTags(i)[c])
    /\ orders[1].tags = Join(Normalize(i, PREFERRED_TAG_FORMAT, FetchedTags(i)))

\* The indices of the tags that render ymd.
Rendering(tags, ymd) == {k \in 1..Len(tags) : Renders(tags[k], ymd)}

ExactlyOneLast(out, preferred, ymd) ==
  /\ Rendering(out, ymd) = {Len(out)}
  /\ Len(out) >= 1 /\ out[Len(out)] = preferred

\* C16: for every tag sequence, target date and preferred format, the output
\* of normalize holds exactly one tag that renders the target date in either
\* format; that tag is the rendering in the preferred format and it is the
\* last element.
C16_FormatCollapse ==
  \A i \in Invocations :
    inv[i].current # null =>
      \A pref \in Formats :
        ExactlyOneLast(Normalize(i, pref, FetchedTags(i)),
                       formatTagByPreference(pref, inv[i].ymd.y, inv[i].ymd.m, inv[i].ymd.d),
                       inv[i].ymd)

\* Format collapse at work: v, 26-08-2025, 2025-08-26 with the target
\* 2025-08-26 have become v, 26-08-2025 in the store.
C16_Witness ==
  \E i \in Invocations :
    /\ PassDone(i) /\ inv[i].writes = 1
    /\ FetchedTags(i) = << <<"v">>, TagDMY, TagYMD >>
    /\ Number(inv[i].ymd.d) = 26
    /\ orders[1].tags = <<"v", ",", SP>> \o TagDMY

\* The entries of a tags field, trimmed.
RECURSIVE Trimmed(_)
Trimmed(parts) ==
  IF parts = << >> THEN << >> ELSE <<Trim(parts[1])>> \o Trimmed(Tail(parts))
Entries(tagsString) == Trimmed(Split(tagsString, << >>))

\* The date a tag renders, as year, month, day; << >> if it is no date tag.
DateOfTag(t) ==
  IF reYMD(t) THEN <<SubSeq(t, 1, 4), SubSeq(t, 6, 7), SubSeq(t, 9, 10)>>
  ELSE IF reDMY(t) THEN <<SubSeq(t, 7, 10), SubSeq(t, 4, 5), SubSeq(t, 1, 2)>>
  ELSE << >>

\* C17: after every reconciliation pass the tags of the record never hold
\* two tags that render the same date, in either format.
C17_NoTwoTagsOfOneDate ==
  \A i \in Invocations :
    PassDone(i) =>
      \A a, b \in 1..Len(Entries(orders[1].tags)) :
        (a # b /\ IsDateTag(Entries(orders[1].tags)[a]))
          => DateOfTag(Entries(orders[1].tags)[a]) # DateOfTag(Entries(orders[1].tags)[b])

\* C17 as amended: after every reconciliation pass the tags of the record
\* hold exactly one tag that renders the target date of that pass, in either
\* format; two tags that render another date, in the record before the pass,
\* are both still there after it.
C17_OneTagOfTargetDate ==
  \A i \in Invocations :
    PassDone(i) =>
      Cardinality(Rendering(Entries(orders[1].tags), inv[i].ymd)) = 1

\* The record held the target date in both formats; the pass has written and
\* one of the two is left.
C17_Witness ==
  \E i \in Invocations :
    /\ PassDone(i) /\ inv[i].writes = 1
    /\ Cardinality(Rendering(Entries(orders0[1].tags), inv[i].ymd)) = 2
    /\ Cardinality(Rendering(Entries(orders[1].tags), inv[i].ymd)) = 1
    /\ orders[1].tags = inv[i].put.tags

\* The tags of a sequence that do not render ymd, in their order.
RECURSIVE Others(_, _)
Others(tags, ymd) ==
  IF tags = << >> THEN << >>
  ELSE IF Renders(tags[1], ymd) THEN Others(Tail(tags), ymd)
  ELSE <<tags[1]>> \o Others(Tail(tags), ymd)

\* C18: every tag that is no date tag, and every date tag for a date other
\* than the target, is in the output of normalize verbatim, as many times and
\* in the same relative order as in the input.
C18_OthersUntouched ==
  \A i \in Invocations :
    inv[i].current # null =>
      \A pref \in Formats :
        Others(Normalize(i, pref, FetchedTags(i)), inv[i].ymd)
          = Others(FetchedTags(i), inv[i].ymd)

\* The tags fetched held a date other than the target before a word and the
\* target date; the write has kept the other date and the word in that order.
C18_Witness ==
  \E i \in Invocations :
    /\ PassDone(i) /\ inv[i].writes = 1
    /\ Len(FetchedTags(i)) = 3
    /\ Len(Others(FetchedTags(i), inv[i].ymd)) = 2
    /\ IsDateTag(Others(FetchedTags(i), inv[i].ymd)[1])
    /\ ~IsDateTag(Others(FetchedTags(i), inv[i].ymd)[2])
    /\ Others(Entries(orders[1].tags), inv[i].ymd) = Others(FetchedTags(i), inv[i].ymd)

\* A year of two digits reads as 19yy from 70 on and as 20yy below.
TwoDigitYears ==
  \A a, b \in Digits :
    Number(Year(<<a, b>>)) =
      IF Number(<<a, b>>) >= 70 THEN 1900 + Number(<<a, b>>)
      ELSE 2000 + Number(<<a, b>>)

\* C19: every date extract returns has its year in 1970..2069, its month in
\* 1..12 and its day in 1..31, and a year of two digits yy is read as 19yy
\* when yy >= 70 and as 20yy otherwise.
C19_DateInRange ==
  /\ TwoDigitYears
  /\ \A i \in Invocations :
       inv[i].ymd # null =>
         /\ Number(inv[i].ymd.y) \in 1970..2069
         /\ Number(inv[i].ymd.m) \in 1..12
         /\ Number(inv[i].ymd.d) \in 1..31

\* C20: from a note that holds several directive blocks, in any mix of the
\* two field orders, extract returns the date of the block that comes first
\* in the text.
C20_FirstBlockGoverns ==
  \A i \in Invocations :
    (inv[i].gated /\ Len(DirectivesOf(OrEmpty(Payload(i).note), 1)) >= 2)
      => inv[i].ymd = extractDeliveryYMD(FirstDirective(OrEmpty(Payload(i).note), 1))

\* The date in the note of the payload of invocation i.
TargetOf(i) == extractDeliveryYMD(OrEmpty(Payload(i).note))

\* C21: the tags and the note an invocation writes are computed from the
\* record it has just fetched and from nothing in the payload: two
\* invocations that fetched the same record write the same.
C21_WriteFromFetchedOnly ==
  \A i, j \in Invocations :
    (inv[i].writes = 1 /\ inv[j].writes = 1 /\ inv[i].current = inv[j].current)
      => (inv[i].put.tags = inv[j].put.tags /\ inv[i].put.note = inv[j].put.note)

\* C21 as amended: the note an invocation writes is the cleaned note of
\* the record it has just fetched, and the tags it writes are the tags of
\* that record normalized for the date extracted from the note of the
\* payload; that date is all the write takes from the payload, whose note and
\* tags are never written.
C21_WriteFromFetchedAndDate ==
  \A i \in Invocations :
    inv[i].writes = 1 =>
      /\ inv[i].current # null
      /\ inv[i].put.note = stripDeliveryDateBlock(inv[i].current.note).cleaned
      /\ TargetOf(i) # null
      /\ inv[i].put.tags =
           Join(normalizeTagsKeepOneDate(PREFERRED_TAG_FORMAT,
                  findDateTagsInTags(inv[i].current.tags),
                  TargetOf(i).y, TargetOf(i).m, TargetOf(i).d))

\* An invocation fetched what another had written before it, a record that
\* was no longer the one its notification was sent for, and its own write,
\* computed from that record, is in the store.
C21_Witness ==
  \E i, j \in Invocations :
    /\ i # j /\ PassDone(i) /\ inv[i].writes = 1 /\ inv[j].writes = 1
    /\ inv[i].current = [tags |-> inv[j].put.tags, note |-> inv[j].put.note]
    /\ inv[i].current # orders0[1]
    /\ inv[i].current.note # OrEmpty(Payload(i).note)
    /\ orders[1].note = stripDeliveryDateBlock(inv[i].current.note).cleaned
    /\ orders[1].tags = inv[i].put.tags

\* C22: when the fetch returns a non-success status the invocation answers
\* 500 and issues no write; when the write returns one it answers 500; a body
\* that authenticates but does not parse answers 500; and neither the fetch
\* nor the write is issued a second time.
C22_FailuresAnswer500 ==
  \A i \in Invocations :
    /\ inv[i].failed = "fetch"
         => (inv[i].pc = "done" /\ inv[i].status = 500
             /\ inv[i].fetches = 1 /\ inv[i].writes = 0 /\ orders = orders0)
    /\ inv[i].failed = "write"
         => (inv[i].pc = "done" /\ inv[i].status = 500
             /\ inv[i].fetches = 1 /\ inv[i].writes = 1 /\ orders = orders0)
    /\ (inv[i].verified = "true" /\ inv[i].parsed /\ ~inv[i].req.raw.json)
         => (inv[i].pc = "done" /\ inv[i].status = 500 /\ inv[i].failed = "parse"
             /\ NoStoreCall(i))
    /\ inv[i].fetches <= 1 /\ inv[i].writes <= 1

\* A write that was due came back with a non-success status: 500, and the
\* record is as it was.
C22_Witness ==
  \E i \in Invocations :
    /\ inv[i].failed = "write" /\ inv[i].status = 500
    /\ inv[i].put # null /\ orders[1] = orders0[1]
    /\ inv[i].put.tags # orders[1].tags

\* The stage invocation i has reached.
Stage(i) ==
  IF inv[i].writes > 0 THEN "WRITTEN"
  ELSE IF inv[i].current # null THEN "COMPUTED"
  ELSE IF inv[i].fetches > 0 THEN "FETCHED"
  ELSE IF inv[i].gated THEN "GATED"
  ELSE IF inv[i].verified = "true" THEN "AUTHENTICATED"
  ELSE "RECEIVED"

\* C23: every invocation goes RECEIVED, AUTHENTICATED, GATED and then either
\* ends as a no-op or goes on to FETCHED, COMPUTED and then either ends as a
\* no-op or to WRITTEN: it issues at most one fetch and at most one write, and
\* a write only after its own fetch has come back with the order.
C23_StateMachine ==
  \A i \in Invocations :
    /\ inv[i].fetches <= 1 /\ inv[i].writes <= 1
    /\ inv[i].writes = 1
         => (inv[i].fetches = 1 /\ inv[i].current # null /\ inv[i].failed # "fetch")
    /\ inv[i].current # null => inv[i].fetches = 1
    /\ inv[i].fetches = 1
         => (inv[i].gated /\ inv[i].allowed /\ inv[i].ymd # null)
    /\ inv[i].gated => (inv[i].parsed /\ inv[i].verified = "true")
    /\ inv[i].pc = "fetching" <=> (Stage(i) = "FETCHED" /\ inv[i].failed = "none")
    /\ inv[i].pc = "writing" <=> (Stage(i) = "WRITTEN" /\ inv[i].status = 0)
    /\ (inv[i].pc = "done" /\ inv[i].status = 200)
         => Stage(i) \in {"GATED", "COMPUTED", "WRITTEN"}

\* An invocation fetched the order, computed, found nothing to change and
\* ended as a no-op without a write.
C23_Witness ==
  \E i \in Invocations :
    /\ inv[i].pc = "done" /\ inv[i].status = 200 /\ Stage(i) = "COMPUTED"
    /\ inv[i].fetches = 1 /\ inv[i].writes = 0
    /\ orders[1] = inv[i].current

Answers == {405, 401, 200, 500}

\* Invocation i has sent a response, and which.
Answered(i) == inv[i].pc = "done" /\ inv[i].status \in Answers

\* Once the response is sent the invocation does nothing more: it neither
\* answers again nor fetches nor writes, and the store is left alone.
NothingAfterResponse ==
  [][\A i \in Invocations :
       inv[i].pc = "done" => (inv'[i] = inv[i] /\ orders' = orders)]_vars

\* C24: if each call to the store returns or fails, every request that was
\* received is answered, once, with 405, 401, 200 or 500; 405 goes to a
\* request that is no POST before any verification and any call to the
\* store; and nothing is fetched or written after the response.
C24_OneResponse ==
  /\ \A i \in {1} : (inv[i].pc # "idle") ~> Answered(i)
  /\ [](\A i \in Invocations :
          /\ inv[i].pc = "done" => inv[i].status \in Answers
          /\ inv[i].pc # "done" => inv[i].status = 0
          /\ inv[i].status = 405
               <=> (inv[i].pc = "done" /\ inv[i].req.method # "POST")
          /\ inv[i].status = 405 => (inv[i].verified = "none" /\ NoStoreCall(i)))
  /\ NothingAfterResponse

\* A request that is no POST has been answered 405, unverified.
C24_Witness ==
  \E i \in Invocations :
    /\ Answered(i) /\ inv[i].status = 405 /\ inv[i].req.method = "GET"
    /\ inv[i].verified = "none" /\ NoStoreCall(i)

\* No other invocation that has received a request is for the order of
\* invocation i.
Alone(i) ==
  \A j \in Invocations \ {i} :
    inv[j].pc = "idle" \/ Payload(j).id # Payload(i).id

\* Invocation i has written, and the store has taken its write.
Wrote(i) == inv[i].pc = "done" /\ inv[i].status = 200 /\ inv[i].writes = 1

\* C25: an invocation fetches and writes only the order whose id is in its
\* own payload, so whatever invocations for another order do meanwhile, an
\* order holds what the one invocation for it, run alone, leaves of it, and
\* an order no invocation is for holds what it held.
C25_OrdersIndependent ==
  /\ \A i \in Invocations :
       (inv[i].pc # "idle" /\ Alone(i)) =>
         /\ inv[i].current # null => inv[i].current = orders0[Payload(i).id]
         /\ inv[i].put # null => inv[i].put.id = Payload(i).id
         /\ orders[Payload(i).id] =
              IF Wrote(i)
              THEN SingleRun(orders0[Payload(i).id], inv[i].ymd)
              ELSE orders0[Payload(i).id]
  /\ \A o \in DOMAIN orders :
       (\A i \in Invocations : inv[i].pc = "idle" \/ Payload(i).id # o)
         => orders[o] = orders0[o]

\* Two invocations for two different orders have both written, and each
\* order holds what its own invocation put.
C25_Witness ==
  \E i, j \in Invocations :
    /\ Payload(i).id = 1 /\ Payload(j).id = 2 /\ Wrote(i) /\ Wrote(j)
    /\ orders[1] # orders0[1] /\ orders[2] # orders0[2]
    /\ orders[1] = [tags |-> inv[i].put.tags, note |-> inv[i].put.note]
    /\ orders[2] = [tags |-> inv[j].put.tags, note |-> inv[j].put.note]
    /\ orders[1] # orders[2]

\* The write of invocation i lands in the store in this step.
Lands(i) ==
  inv[i].pc = "writing" /\ inv'[i].pc = "done" /\ inv'[i].status = 200

\* Every entry of the tags field a that does not render ymd is an entry of
\* the tags field b.
KeepsOthers(a, b, ymd) ==
  \A k \in 1..Len(Entries(a)) :
    Renders(Entries(a)[k], ymd)
      \/ \E l \in 1..Len(Entries(b)) : Entries(b)[l] = Entries(a)[k]

\* C26: a tag that is in the store when the write of an invocation lands,
\* and that does not render the invocation's target date, is still there
\* after the write, also when somebody added it to the order between the
\* invocation's fetch and its write.
C26_NoLostTags ==
  [][\A i \in Invocations :
       Lands(i) =>
         KeepsOthers(orders[Payload(i).id].tags, orders'[Payload(i).id].tags,
                     inv[i].ymd)]_vars

\* C26 as amended: the write replaces the whole tags field with the tags
\* computed from the order as it was fetched.  The tags that do not render
\* the target date are, after the write, those of the fetched order, verbatim
\* and in their order: none of them is removed, and a tag that somebody set
\* between the fetch and the write is lost (the last write wins).
C26_FetchedTagsKept ==
  [][\A i \in Invocations :
       Lands(i) =>
         /\ orders'[Payload(i).id].tags = inv[i].put.tags
         /\ Others(Entries(orders'[Payload(i).id].tags), inv[i].ymd)
              = Others(Entries(inv[i].current.tags), inv[i].ymd)]_vars

\* The order was fetched with the tag v; after the window closed somebody
\* set its tags to w; then the write landed: v is back and w is gone.
C26_Witness ==
  \E i \in Invocations :
    /\ Wrote(i) /\ i \in overwrote /\ late[1] = {"tags"}
    /\ inv[i].current.tags = <<"v">>
    /\ orders[1].tags = inv[i].put.tags
    /\ Entries(orders[1].tags)[1] = <<"v">>
    /\ \A k \in 1..Len(Entries(orders[1].tags)) :
         Entries(orders[1].tags)[k] # <<"w">>

\* C27: for every note the extractor finds a date in, the stripper removes a
\* block from the same note: it reports a change, and the extractor finds no
\* date in what is left.
C27_ExtractImpliesStrip ==
  \A i \in Invocations :
    (inv[i].gated /\ inv[i].ymd # null) =>
      /\ stripDeliveryDateBlock(OrEmpty(Payload(i).note)).changed
      /\ extractDeliveryYMD(
           stripDeliveryDateBlock(OrEmpty(Payload(i).note)).cleaned) = null

====
